---- MODULE Spec2Model ----
(***************************************************************************)
(* js-daterange: the Period class (timezone offset resolution, preset and  *)
(* past date ranges) and the timeAgo relative-time formatter.              *)
(*                                                                         *)
(* An instant is a record [day, ms]: whole days since 1970-01-01 and the   *)
(* millisecond of that day (0 .. 86399999).  The split keeps every number  *)
(* inside the model checker's integer range; all arithmetic on it is exact.*)
(* A dayjs value in utcOffset mode is the same record read as wall-clock   *)
(* time at that offset.                                                    *)
(***************************************************************************)
EXTENDS Integers, Sequences, FiniteSets, TLC

VARIABLES now, period, last

vars == <<now, period, last>>

(***************************************************************************)
(* Bounds of the model.                                                    *)
(***************************************************************************)
SpanDays == 95
MaxPrevDays == 2
MaxTail == 3
Margin == 2
MaxAdvanceMs == 2

(***************************************************************************)
(* Time units and the proleptic Gregorian calendar of the JS Date object.  *)
(***************************************************************************)
MsPerSecond == 1000
MsPerMinute == 60 * 1000
MsPerDay == 24 * 60 * 60 * 1000
SecondsPerDay == 24 * 60 * 60

Abs(n) == IF n < 0 THEN -n ELSE n

IsLeap(y) == (y % 4 = 0 /\ y % 100 # 0) \/ y % 400 = 0

\* month m is 1..12
DaysInMonth(y, m) ==
  IF m = 2 THEN (IF IsLeap(y) THEN 29 ELSE 28)
  ELSE IF m \in {4, 6, 9, 11} THEN 30 ELSE 31

\* leap years before year y; days from 1970-01-01 to the first of year y
LeapsBefore(y) == ((y - 1) \div 4) - ((y - 1) \div 100) + ((y - 1) \div 400)
DaysBeforeYear(y) == (y - 1970) * 365 + LeapsBefore(y) - LeapsBefore(1970)

\* days of year y before its month m
CumDays == <<0, 31, 59, 90, 120, 151, 181, 212, 243, 273, 304, 334>>
DaysBeforeMonth(y, m) == CumDays[m] + (IF m > 2 /\ IsLeap(y) THEN 1 ELSE 0)

\* days since 1970-01-01 of the civil date y-m-d
DaysFromCivil(y, m, d) == DaysBeforeYear(y) + DaysBeforeMonth(y, m) + d - 1

\* the civil date [Y, M, D] of day number z (1970 onwards): the year is
\* 1970 + z \div 366 or the one after
YearFrom(z, y) == IF DaysBeforeYear(y + 1) <= z THEN y + 1 ELSE y
MonthFrom(y, doy) ==
  CHOOSE m \in 1..12 : doy - DaysBeforeMonth(y, m) \in 0..(DaysInMonth(y, m) - 1)
CivilOf(y, m, doy) == [Y |-> y, M |-> m, D |-> doy - DaysBeforeMonth(y, m) + 1]
CivilInYear(y, doy) == CivilOf(y, MonthFrom(y, doy), doy)
CivilAfter(z, y) == CivilInYear(y, z - DaysBeforeYear(y))
CivilFromDays(z) == CivilAfter(z, YearFrom(z, 1970 + z \div 366))

\* dayjs $W: 0 = Sunday .. 6 = Saturday (1970-01-01 was a Thursday)
DayOfWeek(z) == (z + 4) % 7

Before(a, b) == a.day < b.day \/ (a.day = b.day /\ a.ms < b.ms)

(***************************************************************************)
(* The dayjs operations the Period methods call.  dayjs values are         *)
(* immutable: every operation returns a new value.                         *)
(***************************************************************************)

\* .utcOffset(input): the wall-clock time at that offset (utc plugin: an
\* input of magnitude <= 16 is read as hours, anything else as minutes)
Normalised(dayNo, total) ==
  [day |-> dayNo + total \div MsPerDay, ms |-> total % MsPerDay]

utcOffset(d, input) ==
  Normalised(d.day,
             d.ms + (IF Abs(input) <= 16 THEN input * 60 ELSE input) * MsPerMinute)

\* .startOf("day") / .startOf("month")
FirstOfMonth(c) == DaysFromCivil(c.Y, c.M, 1)
LastOfMonth(c) == DaysFromCivil(c.Y, c.M, DaysInMonth(c.Y, c.M))

startOf(d, unit) ==
  IF unit = "day" THEN [day |-> d.day, ms |-> 0]
  ELSE [day |-> FirstOfMonth(CivilFromDays(d.day)), ms |-> 0]

\* .endOf("day") / .endOf("month")
endOf(d, unit) ==
  IF unit = "day" THEN [day |-> d.day, ms |-> MsPerDay - 1]
  ELSE [day |-> LastOfMonth(CivilFromDays(d.day)), ms |-> MsPerDay - 1]

\* .subtract(n, "day") / .subtract(n, "month"); a month step keeps the day
\* of the month, clamped to the length of the target month
Min(a, b) == IF a < b THEN a ELSE b
ClampedDay(y, m, dd) == DaysFromCivil(y, m, Min(dd, DaysInMonth(y, m)))
MonthAt(idx, dd) == ClampedDay(idx \div 12, (idx % 12) + 1, dd)
MonthsBack(c, n) == MonthAt(c.Y * 12 + (c.M - 1) - n, c.D)

subtract(d, n, unit) ==
  IF unit = "day" THEN [day |-> d.day - n, ms |-> d.ms]
  ELSE [day |-> MonthsBack(CivilFromDays(d.day), n), ms |-> d.ms]

\* .day(n): the date moved by n - $W days (Sunday-based day of week)
day(d, n) == [day |-> d.day + (n - DayOfWeek(d.day)), ms |-> d.ms]

\* weekday plugin, default locale (weekStart 0): back to the locale's first
\* day of the week, then n days on
weekday(d, n) == [day |-> d.day - DayOfWeek(d.day) + n, ms |-> d.ms]

(***************************************************************************)
(* DateFormat and .format(pattern)                                         *)
(***************************************************************************)
RFC3339 == "YYYY-MM-DDTHH:mm:ss.SSSSSS[Z]"
YYYY_MM_DD == "YYYY-MM-DD"
DateFormat == {RFC3339, YYYY_MM_DD}

Digits == <<"0", "1", "2", "3", "4", "5", "6", "7", "8", "9">>
Dig(n) == Digits[n + 1]
Pad2(n) == Dig((n \div 10) % 10) \o Dig(n % 10)
Pad3(n) == Dig((n \div 100) % 10) \o Pad2(n)
Pad4(n) == Dig((n \div 1000) % 10) \o Pad3(n)

\* dayjs knows the token SSS only, so SSSSSS prints the milliseconds twice;
\* [Z] is a literal Z
FormatDate(c) == Pad4(c.Y) \o "-" \o Pad2(c.M) \o "-" \o Pad2(c.D)
FormatTime(ms) ==
  "T" \o Pad2(ms \div (60 * MsPerMinute)) \o ":" \o Pad2((ms \div MsPerMinute) % 60)
      \o ":" \o Pad2((ms \div MsPerSecond) % 60)
      \o "." \o Pad3(ms % MsPerSecond) \o Pad3(ms % MsPerSecond) \o "Z"

format(d, pattern) ==
  IF pattern = YYYY_MM_DD THEN FormatDate(CivilFromDays(d.day))
  ELSE FormatDate(CivilFromDays(d.day)) \o FormatTime(d.ms)

(***************************************************************************)
(* Optional values (undefined | value) are sequences of length 0 or 1.     *)
(* Text that the code inspects character by character (the short timezone  *)
(* name) is a sequence of one-character strings.                           *)
(***************************************************************************)
None == <<>>
Some(v) == <<v>>

IsDigit(c) == \E n \in 0..9 : Digits[n + 1] = c
DigitValue(c) == CHOOSE n \in 0..9 : Digits[n + 1] = c

\* String.prototype.slice(3)
slice3(text) == SubSeq(text, 4, Len(text))

\* offset.match(/([+-])(\d+)(?::(\d+))?/): the leftmost sign followed by a
\* digit; None when there is none, else Some([sign, hour, minute]) where
\* hour is the longest run of digits after the sign and minute the run
\* after a following colon (None when the optional group does not match)
RECURSIVE DigitRun(_, _)
DigitRun(text, i) ==
  IF i <= Len(text) /\ IsDigit(text[i])
    THEN <<text[i]>> \o DigitRun(text, i + 1)
    ELSE <<>>

RECURSIVE DecimalValue(_)
DecimalValue(ds) ==
  IF ds = <<>> THEN 0
  ELSE DecimalValue(SubSeq(ds, 1, Len(ds) - 1)) * 10 + DigitValue(ds[Len(ds)])

MatchStarts(text) ==
  {i \in 1..(Len(text) - 1) : text[i] \in {"+", "-"} /\ IsDigit(text[i + 1])}
Leftmost(hits) == CHOOSE k \in hits : \A j \in hits : k <= j
MinuteGroup(text, after) ==
  IF after < Len(text) /\ text[after] = ":" /\ IsDigit(text[after + 1])
    THEN Some(DigitRun(text, after + 1))
    ELSE None
MatchGroups(text, i, hour) ==
  [sign |-> text[i], hour |-> hour,
   minute |-> MinuteGroup(text, i + 1 + Len(hour))]
MatchAt(text, i) == MatchGroups(text, i, DigitRun(text, i + 1))

match(text) ==
  IF MatchStarts(text) = {} THEN None
  ELSE Some(MatchAt(text, Leftmost(MatchStarts(text))))

\* parseFloat(sign + hour)
parseFloat(sign, digits) ==
  IF sign = "-" THEN 0 - DecimalValue(digits) ELSE DecimalValue(digits)

(***************************************************************************)
(* Period.calculateUtcOffset(timeZone).  timeZoneName is what              *)
(* Intl.DateTimeFormat("ia", {timeZoneName: "short", timeZone}) yields for *)
(* the zone: None when there is no timeZoneName part, else Some(text).     *)
(* The result is [threw, value].                                           *)
(***************************************************************************)
\* the statements after the match, given matchData
OffsetFromMatchWithMinutes(matchData) ==
  IF matchData = None THEN [threw |-> TRUE, value |-> 0]
  ELSE [threw |-> FALSE,
        value |-> parseFloat(matchData[1].sign, matchData[1].hour) * 60
                  + (IF matchData[1].minute = None THEN 0
                     ELSE parseFloat(matchData[1].sign, matchData[1].minute[1]))]

OffsetFromMatch(matchData) ==
  IF matchData = None THEN [threw |-> TRUE, value |-> 0]
  ELSE [threw |-> FALSE,
        value |-> parseFloat(matchData[1].sign, matchData[1].hour) * 60]

calculateUtcOffset(timeZone, timeZoneName) ==
  IF timeZone = "" THEN [threw |-> FALSE, value |-> 0]
  ELSE IF timeZoneName = None \/ slice3(timeZoneName[1]) = <<>>
    THEN [threw |-> FALSE, value |-> 0]
  ELSE OffsetFromMatch(match(slice3(timeZoneName[1])))

Constructed(dateformat, timezone, r) ==
  [threw |-> r.threw,
   self |-> [timezone |-> timezone,
             utcOffset |-> IF r.threw THEN None ELSE Some(r.value),
             dateformat |-> dateformat]]

\* new Period(dateformat, timezone): timezone is None when the argument is
\* not given.  The result is [threw, self]; no instance exists when the
\* offset computation throws.
NewPeriod(dateformat, timezone, timeZoneName) ==
  IF timezone = None
    THEN [threw |-> FALSE,
          self |-> [timezone |-> None, utcOffset |-> None,
                    dateformat |-> dateformat]]
  ELSE Constructed(dateformat, timezone,
                   calculateUtcOffset(timezone[1], timeZoneName))

\* this.utcOffset ?? 0
OffsetOf(self) == IF self.utcOffset = None THEN 0 ELSE self.utcOffset[1]

(***************************************************************************)
(* The range methods.  t1 and t2 are the two readings of the clock, the    *)
(* dayjs() call for the start and the dayjs() call for the end.  Each      *)
(* ...Range operator gives the two dayjs values a method formats; the      *)
(* method proper is their rendering with this.dateformat.  A statement     *)
(* such as lastMonday.startOf("day") builds a new dayjs value and drops    *)
(* it, so it has no part in the result.                                    *)
(***************************************************************************)
Render(self, range) ==
  [start |-> format(range.start, self.dateformat),
   end |-> format(range.end, self.dateformat)]

getTodayRange(self, t1, t2) ==
  [start |-> startOf(utcOffset(t1, OffsetOf(self)), "day"),
   end |-> endOf(utcOffset(t2, OffsetOf(self)), "day")]

getToday(self, t1, t2) == Render(self, getTodayRange(self, t1, t2))

getYesterdayRange(self, t1, t2) ==
  [start |-> subtract(startOf(utcOffset(t1, OffsetOf(self)), "day"), 1, "day"),
   end |-> subtract(endOf(utcOffset(t2, OffsetOf(self)), "day"), 1, "day")]

getYesterday(self, t1, t2) == Render(self, getYesterdayRange(self, t1, t2))

getLastWeekRange(self, t1, t2) ==
  [start |-> weekday(utcOffset(t1, OffsetOf(self)), -6),
   end |-> weekday(utcOffset(t2, OffsetOf(self)), 0)]

getLastWeek(self, t1, t2) == Render(self, getLastWeekRange(self, t1, t2))

getThisWeekRange(self, t1, t2) ==
  [start |-> day(utcOffset(t1, OffsetOf(self)), 1),
   end |-> day(utcOffset(t2, OffsetOf(self)), 7)]

getThisWeek(self, t1, t2) == Render(self, getThisWeekRange(self, t1, t2))

getThisMonthRange(self, t1, t2) ==
  [start |-> startOf(utcOffset(t1, OffsetOf(self)), "month"),
   end |-> endOf(utcOffset(t2, OffsetOf(self)), "month")]

getThisMonth(self, t1, t2) == Render(self, getThisMonthRange(self, t1, t2))

getLastMonthRange(self, t1, t2) ==
  [start |-> startOf(subtract(utcOffset(t1, OffsetOf(self)), 1, "month"), "month"),
   end |-> endOf(subtract(utcOffset(t2, OffsetOf(self)), 1, "month"), "month")]

getLastMonth(self, t1, t2) == Render(self, getLastMonthRange(self, t1, t2))

\* PresetDateRange, and a value outside the enum
PresetDateRange ==
  {"TODAY", "YESTERDAY", "THIS_WEEK", "LAST_WEEK", "THIS_MONTH", "LAST_MONTH"}
PresetInputs == PresetDateRange \cup {"NEXT_WEEK"}

\* createDefinedRange(daterange): [threw, range, result]; the default
\* branch throws Error("Unsupported DateRange: ...")
Returned(range, result) ==
  [threw |-> FALSE, range |-> range, result |-> result]
Thrown == [threw |-> TRUE]

createDefinedRangeFallThrough(self, daterange, t1, t2) ==
  CASE daterange = "LAST_MONTH" -> Returned(getLastMonthRange(self, t1, t2),
                                     getLastMonth(self, t1, t2))
    [] daterange = "LAST_WEEK" -> Returned(getLastWeekRange(self, t1, t2),
                                     getLastWeek(self, t1, t2))
    [] daterange = "THIS_MONTH" -> Returned(getThisMonthRange(self, t1, t2),
                                     getThisMonth(self, t1, t2))
    [] daterange = "THIS_WEEK" -> Returned(getThisWeekRange(self, t1, t2),
                                     getThisWeek(self, t1, t2))
    [] daterange = "TODAY" -> Returned(getTodayRange(self, t1, t2),
                                     getToday(self, t1, t2))
    [] OTHER -> Returned(getYesterdayRange(self, t1, t2),
                                     getYesterday(self, t1, t2))

createDefinedRange(self, daterange, t1, t2) ==
  CASE daterange = "LAST_MONTH" -> Returned(getLastMonthRange(self, t1, t2),
                                     getLastMonth(self, t1, t2))
    [] daterange = "LAST_WEEK" -> Returned(getLastWeekRange(self, t1, t2),
                                     getLastWeek(self, t1, t2))
    [] daterange = "THIS_MONTH" -> Returned(getThisMonthRange(self, t1, t2),
                                     getThisMonth(self, t1, t2))
    [] daterange = "THIS_WEEK" -> Returned(getThisWeekRange(self, t1, t2),
                                     getThisWeek(self, t1, t2))
    [] daterange = "TODAY" -> Returned(getTodayRange(self, t1, t2),
                                     getToday(self, t1, t2))
    [] daterange = "YESTERDAY" -> Returned(getYesterdayRange(self, t1, t2),
                                     getYesterday(self, t1, t2))
    [] OTHER -> Thrown

\* createPastDateRange(prevDays, includingToday): one reading t of the clock
createPastDateRangeDayAligned(self, prevDays, includingToday, t) ==
  LET endDate == IF includingToday THEN utcOffset(t, OffsetOf(self))
                 ELSE subtract(utcOffset(t, OffsetOf(self)), 1, "day")
      startDate == subtract(endDate, prevDays, "day")
  IN [start |-> startOf(startDate, "day"), end |-> endOf(endDate, "day")]

createPastDateRangeRange(self, prevDays, includingToday, t) ==
  LET endDate == IF includingToday THEN utcOffset(t, OffsetOf(self))
                 ELSE subtract(utcOffset(t, OffsetOf(self)), 1, "day")
      startDate == subtract(endDate, prevDays, "day")
  IN [start |-> startDate, end |-> endDate]

createPastDateRange(self, prevDays, includingToday, t) ==
  Render(self, createPastDateRangeRange(self, prevDays, includingToday, t))

(***************************************************************************)
(* The state machine of the Period class.                                  *)
(*   now     the system clock                                              *)
(*   period  the Period instances, as their constructors left them         *)
(*   last    the last call: its receiver, arguments, clock readings and    *)
(*           outcome                                                       *)
(* The clock is sampled: each day at 00:00:00.000, 09:59:59.999,           *)
(* 10:00:00.000 and 23:59:59.999 UTC, over SpanDays days from 2023-12-28   *)
(* (a Thursday), which takes in a year's end, a leap February, months of   *)
(* 29 and 31 days and the local midnight of the offsets below.             *)
(***************************************************************************)
FirstDay == DaysFromCivil(2023, 12, 28)
LastDay == FirstDay + SpanDays
MsSamples == <<0, 10 * 60 * MsPerMinute - 1, 10 * 60 * MsPerMinute, MsPerDay - 1>>

Instants == {[day |-> d, ms |-> MsSamples[k]] : d \in FirstDay..LastDay,
                                                 k \in 1..Len(MsSamples)}

\* the sample instants that follow t directly (none after the last one)
Succ(t) ==
  LET k == CHOOSE j \in 1..Len(MsSamples) : MsSamples[j] = t.ms
  IN IF k < Len(MsSamples) THEN {[day |-> t.day, ms |-> MsSamples[k + 1]]}
     ELSE IF t.day < LastDay THEN {[day |-> t.day + 1, ms |-> MsSamples[1]]}
     ELSE {}

\* a second reading of the clock within a call: the same millisecond or,
\* where the samples have it, the next one
Later(t) == {t} \cup (Succ(t) \cap {Normalised(t.day, t.ms + 1)})

\* what Intl yields as the short name of a zone (locale "ia")
GMTplus14 == <<"G", "M", "T", "+", "1", "4">>
GMTminus930 == <<"G", "M", "T", "-", "9", ":", "3", "0">>

Instances == {1, 2}

InitialPeriods ==
  {<<NewPeriod(f, Some("Pacific/Kiritimati"), Some(GMTplus14)).self, p2>> :
     f \in DateFormat,
     p2 \in {NewPeriod(YYYY_MM_DD, None, None).self,
             NewPeriod(RFC3339, Some("Pacific/Marquesas"), Some(GMTminus930)).self}}

Init ==
  /\ now \in Instants
  /\ period \in InitialPeriods
  /\ last = [op |-> "none"]

\* no call is in progress: the caller has taken the last call's outcome
Idle == last.op = "none"

\* time passes between calls
Tick ==
  /\ Idle
  /\ \E t \in Succ(now) : now' = t
  /\ UNCHANGED <<period, last>>

\* the caller takes the outcome of the call
ResultTaken ==
  /\ ~Idle
  /\ last' = [op |-> "none"]
  /\ UNCHANGED <<now, period>>

Called(op, i, args, t1, t2, out) ==
  IF out.threw
    THEN [op |-> op, self |-> i, args |-> args, reads |-> <<t1, t2>>,
          threw |-> TRUE]
    ELSE [op |-> op, self |-> i, args |-> args, reads |-> <<t1, t2>>,
          threw |-> FALSE, range |-> out.range, result |-> out.result]

CallGetToday(i) ==
  \E t2 \in Later(now) :
    /\ Idle
    /\ last' = Called("getToday", i, <<>>, now, t2,
                      Returned(getTodayRange(period[i], now, t2),
                               getToday(period[i], now, t2)))
    /\ now' = t2
    /\ UNCHANGED period

CallGetYesterday(i) ==
  \E t2 \in Later(now) :
    /\ Idle
    /\ last' = Called("getYesterday", i, <<>>, now, t2,
                      Returned(getYesterdayRange(period[i], now, t2),
                               getYesterday(period[i], now, t2)))
    /\ now' = t2
    /\ UNCHANGED period

CallGetLastWeek(i) ==
  \E t2 \in Later(now) :
    /\ Idle
    /\ last' = Called("getLastWeek", i, <<>>, now, t2,
                      Returned(getLastWeekRange(period[i], now, t2),
                               getLastWeek(period[i], now, t2)))
    /\ now' = t2
    /\ UNCHANGED period

CallGetThisWeek(i) ==
  \E t2 \in Later(now) :
    /\ Idle
    /\ last' = Called("getThisWeek", i, <<>>, now, t2,
                      Returned(getThisWeekRange(period[i], now, t2),
                               getThisWeek(period[i], now, t2)))
    /\ now' = t2
    /\ UNCHANGED period

CallGetThisMonth(i) ==
  \E t2 \in Later(now) :
    /\ Idle
    /\ last' = Called("getThisMonth", i, <<>>, now, t2,
                      Returned(getThisMonthRange(period[i], now, t2),
                               getThisMonth(period[i], now, t2)))
    /\ now' = t2
    /\ UNCHANGED period

CallGetLastMonth(i) ==
  \E t2 \in Later(now) :
    /\ Idle
    /\ last' = Called("getLastMonth", i, <<>>, now, t2,
                      Returned(getLastMonthRange(period[i], now, t2),
                               getLastMonth(period[i], now, t2)))
    /\ now' = t2
    /\ UNCHANGED period

\* a call that throws reads the clock not at all
CallCreateDefinedRange(i, daterange) ==
  \E t2 \in Later(now) :
    LET out == createDefinedRange(period[i], daterange, now, t2)
    IN /\ Idle
       /\ last' = Called("createDefinedRange", i, <<daterange>>, now,
                         IF out.threw THEN now ELSE t2, out)
       /\ now' = IF out.threw THEN now ELSE t2
       /\ UNCHANGED period

\* as CallCreatePastDateRange, but the method keeps the offset it resolved
\* (this.utcOffset ??= 0)
CallCreatePastDateRangeCaching(i, prevDays, includingToday) ==
  /\ Idle
  /\ last' = Called("createPastDateRange", i, <<prevDays, includingToday>>,
                    now, now,
                    Returned(createPastDateRangeRange(period[i], prevDays,
                                                      includingToday, now),
                             createPastDateRange(period[i], prevDays,
                                                 includingToday, now)))
  /\ period' = [period EXCEPT ![i].utcOffset = Some(OffsetOf(period[i]))]
  /\ UNCHANGED now

CallCreatePastDateRange(i, prevDays, includingToday) ==
  /\ Idle
  /\ last' = Called("createPastDateRange", i, <<prevDays, includingToday>>,
                    now, now,
                    Returned(createPastDateRangeRange(period[i], prevDays,
                                                      includingToday, now),
                             createPastDateRange(period[i], prevDays,
                                                 includingToday, now)))
  /\ UNCHANGED <<now, period>>

Next ==
  \/ Tick
  \/ ResultTaken
  \/ \E i \in Instances : CallGetToday(i)
  \/ \E i \in Instances : CallGetYesterday(i)
  \/ \E i \in Instances : CallGetLastWeek(i)
  \/ \E i \in Instances : CallGetThisWeek(i)
  \/ \E i \in Instances : CallGetThisMonth(i)
  \/ \E i \in Instances : CallGetLastMonth(i)
  \/ \E i \in Instances, daterange \in PresetInputs :
       CallCreateDefinedRange(i, daterange)
  \/ \E i \in Instances, prevDays \in (0 - MaxPrevDays)..MaxPrevDays,
        includingToday \in BOOLEAN :
       CallCreatePastDateRange(i, prevDays, includingToday)

Spec == Init /\ [][Next]_vars

(***************************************************************************)
(* Construction and offset resolution.  The short timezone name that Intl  *)
(* yields is an input of the constructor: any text of a three-character    *)
(* prefix and up to MaxTail further characters, a shorter text, the name   *)
(* of a real offset (GMT+5:30), or no timeZoneName part at all.            *)
(***************************************************************************)
GMT == <<"G", "M", "T">>
UTC == <<"U", "T", "C">>
TailAlphabet == {"+", "-", ":", "1", "4", "T"}
Tails == UNION {[1..k -> TailAlphabet] : k \in 0..MaxTail}

\* decimal digits of n (0..99), without leading zero, and with two digits
Decimal(n) == IF n < 10 THEN <<Dig(n)>> ELSE <<Dig(n \div 10), Dig(n % 10)>>
TwoDigits(n) == <<Dig(n \div 10), Dig(n % 10)>>

\* the names of the offsets in use: GMT-12 .. GMT+14, on the hour or with
\* 30 or 45 minutes
ZoneName(sign, h, mm) ==
  GMT \o <<sign>> \o Decimal(h) \o (IF mm = 0 THEN <<>> ELSE <<":">> \o TwoDigits(mm))
ZoneOffsets ==
  {z \in [sign : {"+", "-"}, h : 0..14, mm : {0, 30, 45}] :
     /\ z.sign = "-" => z.h <= 12
     /\ z.h = 14 => z.mm = 0}
ValidNames == {GMT, UTC} \cup {ZoneName(z.sign, z.h, z.mm) : z \in ZoneOffsets}

TimeZoneNames ==
  {None} \cup {Some(n) : n \in ValidNames}
         \cup {Some(GMT \o t) : t \in Tails}
         \cup {Some(<<>>), Some(<<"Z">>), Some(<<"+", "1">>)}

TimezoneArgs == {None, Some(""), Some("Asia/Kolkata")}

InitOffset ==
  /\ now = [day |-> FirstDay, ms |-> 0]
  /\ period = <<NewPeriod(RFC3339, Some("Pacific/Kiritimati"), Some(GMTplus14)).self,
                NewPeriod(YYYY_MM_DD, None, None).self>>
  /\ last = [op |-> "none"]

\* new Period(dateformat, timezone): a new instance (none when the
\* constructor throws); the existing instances are not involved
Construct(dateformat, timezone, timeZoneName) ==
  /\ Idle
  /\ last' = [op |-> "constructor", args |-> <<dateformat, timezone>>,
              timeZoneName |-> timeZoneName,
              out |-> NewPeriod(dateformat, timezone, timeZoneName)]
  /\ UNCHANGED <<now, period>>

\* period[i].calculateUtcOffset(timeZone)
CallCalculateUtcOffset(i, timeZone, timeZoneName) ==
  /\ Idle
  /\ last' = [op |-> "calculateUtcOffset", self |-> i, args |-> <<timeZone>>,
              timeZoneName |-> timeZoneName,
              out |-> calculateUtcOffset(timeZone, timeZoneName)]
  /\ UNCHANGED <<now, period>>

NextOffset ==
  \/ ResultTaken
  \/ \E dateformat \in DateFormat, timezone \in TimezoneArgs,
        timeZoneName \in TimeZoneNames :
       Construct(dateformat, timezone, timeZoneName)
  \/ \E i \in Instances, timeZone \in {"", "Asia/Kolkata"},
        timeZoneName \in TimeZoneNames :
       CallCalculateUtcOffset(i, timeZone, timeZoneName)

SpecOffset == InitOffset /\ [][NextOffset]_vars

(***************************************************************************)
(* timeAgo(date, locale).  The phrase is made by Intl.RelativeTimeFormat   *)
(* from a value and a unit; the model keeps the pair handed to it.         *)
(***************************************************************************)
\* the table ranges; the threshold Infinity is None
ranges ==
  << [threshold |-> Some(60), unit |-> "second"],
     [threshold |-> Some(3600), unit |-> "minute"],
     [threshold |-> Some(86400), unit |-> "hour"],
     [threshold |-> Some(604800), unit |-> "day"],
     [threshold |-> Some(2592000), unit |-> "week"],
     [threshold |-> Some(31536000), unit |-> "month"],
     [threshold |-> None, unit |-> "year"] >>

\* absDiff < threshold
LessThan(absDiff, threshold) == threshold = None \/ absDiff < threshold[1]

\* Math.round(n / d) for d > 0: the nearest integer, a tie going up
MathRound(n, d) == (2 * n + d) \div (2 * d)

\* Math.floor((past.getTime() - now.getTime()) / 1000); a day is a whole
\* number of seconds, so the floor is taken on the milliseconds of the day
DiffInSeconds(past, nowRead) ==
  (past.day - nowRead.day) * SecondsPerDay
    + ((past.ms - nowRead.ms) \div MsPerSecond)

PrevThresholdOwn(i) == IF ranges[i].threshold = None THEN ranges[i - 1].threshold[1]
                       ELSE ranges[i].threshold[1]
PrevThreshold(i) == IF i = 1 THEN 1 ELSE ranges[i - 1].threshold[1]

\* the for loop from index i on; rtf.format(0, "second") after it
RECURSIVE Loop(_, _)
Loop(diffInSeconds, i) ==
  IF i > Len(ranges) THEN [value |-> 0, unit |-> "second"]
  ELSE IF LessThan(Abs(diffInSeconds), ranges[i].threshold)
    THEN [value |-> MathRound(diffInSeconds, PrevThreshold(i)),
          unit |-> ranges[i].unit]
  ELSE Loop(diffInSeconds, i + 1)

timeAgo(date, nowRead) == Loop(DiffInSeconds(date, nowRead), 1)

\* the instant s seconds and r milliseconds after t
AddSeconds(t, s, r) ==
  Normalised(t.day + s \div SecondsPerDay,
             t.ms + (s % SecondsPerDay) * MsPerSecond + r)

\* the inputs: differences about each threshold and about the halves where
\* the rounding turns, past and future, at three phases of the second
Centers ==
  {0, 30, 60, 90, 3600, 5400, 86400, 129600, 604800, 907200, 2592000,
   31536000, 47304000}
DeltaSeconds == {sg * (c + k) : sg \in {-1, 1}, c \in Centers, k \in (0 - Margin)..Margin}
Phases == {0, 1, 999}

InitTimeAgo ==
  /\ now = [day |-> FirstDay, ms |-> 0]
  /\ period = <<NewPeriod(RFC3339, Some("Pacific/Kiritimati"), Some(GMTplus14)).self,
                NewPeriod(YYYY_MM_DD, None, None).self>>
  /\ last = [op |-> "none"]

TimeAgoCalled(how, date, nowRead, out) ==
  [op |-> "timeAgo", how |-> how, date |-> date, reads |-> <<nowRead>>,
   diffInSeconds |-> DiffInSeconds(date, nowRead),
   value |-> out.value, unit |-> out.unit]

\* timeAgo(date) for a date given as such
CallTimeAgo(s, r) ==
  /\ Idle
  /\ last' = TimeAgoCalled(<<"date", s, r>>, AddSeconds(now, s, r), now,
                           timeAgo(AddSeconds(now, s, r), now))
  /\ UNCHANGED <<now, period>>

\* timeAgo(Date.now() + s * 1000), the form of the documented examples: the
\* caller reads the clock, and timeAgo reads it again adv milliseconds on
CallTimeAgoFromNow(s, adv) ==
  /\ Idle
  /\ now.ms + adv <= MaxAdvanceMs
  /\ last' = TimeAgoCalled(<<"Date.now()", s, adv>>, AddSeconds(now, s, 0),
                           AddSeconds(now, 0, adv),
                           timeAgo(AddSeconds(now, s, 0), AddSeconds(now, 0, adv)))
  /\ now' = AddSeconds(now, 0, adv)
  /\ UNCHANGED period

\* timeAgo(Date.now() - 60000) and timeAgo(Date.now() + 3600000)
DocExamples == {-60, 3600}

NextTimeAgo ==
  \/ ResultTaken
  \/ \E s \in DeltaSeconds, r \in Phases : CallTimeAgo(s, r)
  \/ \E s \in DocExamples, adv \in 0..MaxAdvanceMs : CallTimeAgoFromNow(s, adv)

SpecTimeAgo == InitTimeAgo /\ [][NextTimeAgo]_vars

(***************************************************************************)
(* Properties.                                                             *)
(***************************************************************************)
\* the wall-clock time of instant t at the offset of instance i
Wall(i, t) == utcOffset(t, OffsetOf(period[i]))

\* the Monday of the Monday-to-Sunday week that holds day z
IsoMonday(z) == z - ((DayOfWeek(z) + 6) % 7)

StartOfDay(z) == [day |-> z, ms |-> 0]
EndOfDay(z) == [day |-> z, ms |-> MsPerDay - 1]

\* C1: getToday returns an end later than its start, both on the same
\* calendar day at the instance's offset, also when the clock advances
\* between the reading for the start and the reading for the end.
C1_TodayOneDay ==
  last.op = "getToday" =>
    /\ Before(last.range.start, last.range.end)
    /\ last.range.start.day = last.range.end.day

\* C2: getThisWeek returns the Monday 00:00:00.000 and the Sunday
\* 23:59:59.999 of the Monday-to-Sunday week that holds the current day.
C2_ThisWeekIsoWeek ==
  last.op = "getThisWeek" =>
    /\ last.range.start = StartOfDay(IsoMonday(Wall(last.self, last.reads[1]).day))
    /\ last.range.end = EndOfDay(IsoMonday(Wall(last.self, last.reads[1]).day) + 6)

\* C3: getLastWeek returns the Monday at start of day and the Sunday at end
\* of day of the week before the one that holds the current day, and the
\* current day is never inside the range.
C3_LastWeekIsoWeek ==
  last.op = "getLastWeek" =>
    /\ last.range.start =
         StartOfDay(IsoMonday(Wall(last.self, last.reads[1]).day) - 7)
    /\ last.range.end = EndOfDay(IsoMonday(Wall(last.self, last.reads[1]).day) - 1)
    /\ Wall(last.self, last.reads[1]).day
         \notin last.range.start.day..last.range.end.day

\* C4: getLastMonth, called on any day of month M, returns the first and the
\* last instant of month M-1 (December of the year before when M is January).
PrevMonthFirst(c) ==
  IF c.M = 1 THEN DaysFromCivil(c.Y - 1, 12, 1) ELSE DaysFromCivil(c.Y, c.M - 1, 1)
PrevMonthLast(c) == DaysFromCivil(c.Y, c.M, 1) - 1
C4_LastMonthWhole ==
  last.op = "getLastMonth" =>
    /\ last.range.start =
         StartOfDay(PrevMonthFirst(CivilFromDays(Wall(last.self, last.reads[1]).day)))
    /\ last.range.end =
         EndOfDay(PrevMonthLast(CivilFromDays(Wall(last.self, last.reads[1]).day)))

\* C5: createPastDateRange(prevDays, includingToday) ends at now (or one day
\* before, when today is not included) and starts prevDays days before its
\* end, at the same time of day, neither aligned to a day boundary; a
\* negative prevDays gives a start after the end.
PastRangeRule(w, prevDays, includingToday, range) ==
  /\ range.end = [day |-> w.day - (IF includingToday THEN 0 ELSE 1), ms |-> w.ms]
  /\ range.start = [day |-> range.end.day - prevDays, ms |-> w.ms]
  /\ prevDays < 0 => Before(range.end, range.start)
C5_PastRange ==
  last.op = "createPastDateRange" =>
    /\ ~last.threw
    /\ last.reads[1] = last.reads[2]
    /\ PastRangeRule(Wall(last.self, last.reads[1]), last.args[1], last.args[2],
                     last.range)
    /\ last.result = [start |-> format(last.range.start, period[last.self].dateformat),
                      end |-> format(last.range.end, period[last.self].dateformat)]
C5_Witness ==
  /\ last.op = "createPastDateRange"
  /\ last.args[1] < 0
  /\ ~last.args[2]
  /\ Before(last.range.end, last.range.start)
  /\ last.range.end.ms = 10 * 60 * MsPerMinute - 1

\* C6: createDefinedRange(preset) returns what the range method of the same
\* name returns, for each of the six presets, and throws for any other value.
DispatchRule(p, daterange, t1, t2, call) ==
  /\ daterange \notin PresetDateRange => call.threw
  /\ daterange = "TODAY" => ~call.threw /\ call.result = getToday(p, t1, t2)
  /\ daterange = "YESTERDAY" => ~call.threw /\ call.result = getYesterday(p, t1, t2)
  /\ daterange = "THIS_WEEK" => ~call.threw /\ call.result = getThisWeek(p, t1, t2)
  /\ daterange = "LAST_WEEK" => ~call.threw /\ call.result = getLastWeek(p, t1, t2)
  /\ daterange = "THIS_MONTH" => ~call.threw /\ call.result = getThisMonth(p, t1, t2)
  /\ daterange = "LAST_MONTH" => ~call.threw /\ call.result = getLastMonth(p, t1, t2)
C6_Dispatch ==
  last.op = "createDefinedRange" =>
    DispatchRule(period[last.self], last.args[1], last.reads[1], last.reads[2], last)
C6_Witness ==
  /\ last.op = "createDefinedRange"
  /\ last.args[1] = "NEXT_WEEK"
  /\ last.threw

\* C7: the resolved offset is sign * hour * 60 of the short timezone name,
\* minutes dropped; 0 when no timezone is given or the text after the
\* three-character prefix is absent or empty; an error when that text is
\* present and holds no sign followed by a digit; and a whole number of
\* minutes in -720..840 for the name of every offset in use.
SignOf(sg) == IF sg = "-" THEN -1 ELSE 1
HasSignAndDigits(name) ==
  \E i \in 4..(Len(name) - 1) :
    name[i] \in {"+", "-"}
      /\ name[i + 1] \in {"0", "1", "2", "3", "4", "5", "6", "7", "8", "9"}
OffsetRule(timeZone, timeZoneName, threw, value) ==
  /\ timeZone = "" => ~threw /\ value = 0
  /\ timeZone # "" /\ timeZoneName = None => ~threw /\ value = 0
  /\ timeZone # "" /\ timeZoneName # None =>
       /\ Len(timeZoneName[1]) <= 3 => ~threw /\ value = 0
       /\ Len(timeZoneName[1]) > 3 => (threw <=> ~HasSignAndDigits(timeZoneName[1]))
       /\ ~threw => value % 60 = 0
       /\ timeZoneName[1] \in ValidNames => ~threw /\ value \in -720..840
       /\ \A z \in ZoneOffsets :
            timeZoneName[1] = ZoneName(z.sign, z.h, z.mm) =>
              value = SignOf(z.sign) * z.h * 60
UnitFor(a) ==
  IF a < 60 THEN "second"
  ELSE IF a < 3600 THEN "minute"
  ELSE IF a < 86400 THEN "hour"
  ELSE IF a < 604800 THEN "day"
  ELSE IF a < 2592000 THEN "week"
  ELSE IF a < 31536000 THEN "month"
  ELSE "year"
DivisorFor(unit) ==
  CASE unit = "second" -> 1
    [] unit = "minute" -> 60
    [] unit = "hour" -> 3600
    [] unit = "day" -> 86400
    [] unit = "week" -> 604800
    [] unit = "month" -> 2592000
    [] unit = "year" -> 31536000
IsRounded(v, d, p) == 2 * p * v <= 2 * d + p /\ 2 * d + p < 2 * p * v + 2 * p
C8_Buckets ==
  last.op = "timeAgo" =>
    /\ last.how[1] = "date" => last.diffInSeconds = last.how[2]
    /\ last.unit = UnitFor(Abs(last.diffInSeconds))
    /\ IsRounded(last.value, last.diffInSeconds, DivisorFor(last.unit))
C8_Witness ==
  /\ last.op = "timeAgo"
  /\ last.diffInSeconds = -5400
  /\ last.unit = "hour"
  /\ last.value = -1

\* C9: timeAgo(now - 60000) gives unit minute with value -1 and
\* timeAgo(now + 3600000) gives unit hour with value +1, the argument being
\* computed from the clock before timeAgo reads the clock again.
C9_DocExamples ==
  last.op = "timeAgo" /\ last.how[1] = "Date.now()" =>
    /\ last.how[2] = -60 => last.unit = "minute" /\ last.value = -1
    /\ last.how[2] = 3600 => last.unit = "hour" /\ last.value = 1

\* C10: no call, returning or throwing, changes an instance's timezone,
\* offset or format, and the result of a call is what its method gives for
\* the receiver's own fields and the clock readings of that call, whatever
\* the other instance is and whatever was called before.
OwnResult(call) ==
  CASE call.op = "getToday" ->
         call.result = getToday(period[call.self], call.reads[1], call.reads[2])
    [] call.op = "getYesterday" ->
         call.result = getYesterday(period[call.self], call.reads[1], call.reads[2])
    [] call.op = "getLastWeek" ->
         call.result = getLastWeek(period[call.self], call.reads[1], call.reads[2])
    [] call.op = "getThisWeek" ->
         call.result = getThisWeek(period[call.self], call.reads[1], call.reads[2])
    [] call.op = "getThisMonth" ->
         call.result = getThisMonth(period[call.self], call.reads[1], call.reads[2])
    [] call.op = "getLastMonth" ->
         call.result = getLastMonth(period[call.self], call.reads[1], call.reads[2])
    [] call.op = "createDefinedRange" ->
         call.threw \/ call.result =
           createDefinedRange(period[call.self], call.args[1],
                              call.reads[1], call.reads[2]).result
    [] call.op = "createPastDateRange" ->
         call.result = createPastDateRange(period[call.self], call.args[1],
                                           call.args[2], call.reads[1])
    [] OTHER -> TRUE
C10_Frame == [][period' = period /\ OwnResult(last')]_vars
C10_Witness ==
  /\ last.op = "createDefinedRange"
  /\ last.threw
  /\ last.self = 2
  /\ period[2].utcOffset = None
  /\ period[1].utcOffset = Some(840)

(***************************************************************************)
(* What the week and month methods do return, for comparison with C1-C4.   *)
(***************************************************************************)
\* getToday is one whole day whenever both readings fall on the same day
TodayAsCoded ==
  last.op = "getToday"
    /\ Wall(last.self, last.reads[1]).day = Wall(last.self, last.reads[2]).day =>
      /\ last.range.start = StartOfDay(Wall(last.self, last.reads[1]).day)
      /\ last.range.end = EndOfDay(Wall(last.self, last.reads[1]).day)

\* getThisWeek keeps the time of day of each reading; from Monday to
\* Saturday its dates are the Monday and Sunday of the current week, on a
\* Sunday they are the Monday and Sunday that follow
ThisWeekAsCoded ==
  last.op = "getThisWeek" =>
    /\ last.range.start.ms = Wall(last.self, last.reads[1]).ms
    /\ last.range.end.ms = Wall(last.self, last.reads[2]).ms
    /\ last.range.start.day =
         IsoMonday(Wall(last.self, last.reads[1]).day)
           + (IF DayOfWeek(Wall(last.self, last.reads[1]).day) = 0 THEN 7 ELSE 0)
    /\ last.range.end.day =
         IsoMonday(Wall(last.self, last.reads[2]).day) + 6
           + (IF DayOfWeek(Wall(last.self, last.reads[2]).day) = 0 THEN 7 ELSE 0)

\* getLastWeek keeps the time of day of each reading; from Monday to
\* Saturday its dates are the Monday and Sunday of the week before, on a
\* Sunday they are the Monday of the current week and the Sunday itself
LastWeekAsCoded ==
  last.op = "getLastWeek" =>
    /\ last.range.start.ms = Wall(last.self, last.reads[1]).ms
    /\ last.range.end.ms = Wall(last.self, last.reads[2]).ms
    /\ last.range.start.day =
         IsoMonday(Wall(last.self, last.reads[1]).day) - 7
           + (IF DayOfWeek(Wall(last.self, last.reads[1]).day) = 0 THEN 7 ELSE 0)
    /\ last.range.end.day =
         IsoMonday(Wall(last.self, last.reads[2]).day) - 1
           + (IF DayOfWeek(Wall(last.self, last.reads[2]).day) = 0 THEN 7 ELSE 0)

\* getLastMonth is the whole month before that of the first reading whenever
\* the second reading falls in the same month
SameMonth(a, b) == a.Y = b.Y /\ a.M = b.M
LastMonthAsCoded ==
  last.op = "getLastMonth"
    /\ SameMonth(CivilFromDays(Wall(last.self, last.reads[1]).day),
                 CivilFromDays(Wall(last.self, last.reads[2]).day)) =>
      /\ last.range.start =
           StartOfDay(PrevMonthFirst(CivilFromDays(Wall(last.self, last.reads[1]).day)))
      /\ last.range.end =
           EndOfDay(PrevMonthLast(CivilFromDays(Wall(last.self, last.reads[1]).day)))

====
